---- MODULE Spec2Model ----
(***************************************************************************)
(* A model of the byte-level byte-pair-encoding tokenizer of src/lib.rs:   *)
(* pair statistics, merge application, the training loop, vocabulary       *)
(* construction, encode and decode.  The pure functions of the crate are   *)
(* operators; the loops of calculate_merges and encode are stepped by      *)
(* actions, one for the selection of a pair and one for its application.   *)
(* A HashMap is iterated in an unspecified order, so an operation whose    *)
(* result depends on that order is a set of possible results.              *)
(***************************************************************************)
EXTENDS Integers, Sequences, FiniteSets, TLC

\* Bounds of the model.
MaxCorpusLen == 3
MaxTextLen == 2
MaxMerges == 2
MaxSeqLen == 4

\* Constants of the program.
BaseVocab == 256
U16Max == 65535

\* Option::None of get_most_frequent_pair.
None == <<>>

\* The characters (Unicode scalar values) texts are built from: NUL, 'a'
\* and the two-byte character U+00E9.
Chars == {0, 97, 233}

\* "aaabdaaabac" with vocab_size 276 (test calculate_merges_simple).
ExampleCorpus == <<97, 97, 97, 98, 100, 97, 97, 97, 98, 97, 99>>
ExampleVocabSize == 276
\* "a\u{e9}a\u{e9}": two pairs tie for the maximum count.
TieCorpus == <<97, 233, 97, 233>>
\* "aaa\u{e9}\u{e9}": two rules over bytes are learned.
TwoRuleCorpus == <<97, 97, 97, 233, 233>>
\* "\0\0\0\u{e9}": the rule for the pair (0, 0) is learned.
NulCorpus == <<0, 0, 0, 233>>

\* [101, 32, 101, 32, 101, 32, 101] (test merge_continuous).
ContinuousIds == <<101, 32, 101, 32, 101, 32, 101>>

StringsUpTo(S, n) == UNION {[1..k -> S] : k \in 0..n}

Corpora == StringsUpTo(Chars, MaxCorpusLen) \cup {TieCorpus, TwoRuleCorpus, NulCorpus}
Texts == StringsUpTo(Chars, MaxTextLen)
VocabStarts == {BaseVocab, BaseVocab + 1}
MergeAlphabet == {32, 101}
MergeSeqs == StringsUpTo(MergeAlphabet, MaxSeqLen) \cup {ContinuousIds}

VARIABLES pc, ids_orig, vocab_size, vocab_start, i, ids, pair, merges,
          input, tokens, vocab, res, call

vars == <<pc, ids_orig, vocab_size, vocab_start, i, ids, pair, merges,
          input, tokens, vocab, res, call>>

----------------------------------------------------------------------------
\* str::as_bytes: the UTF-8 encoding of one scalar value.
Utf8Bytes(c) ==
    IF c < 128 THEN <<c>>
    ELSE IF c < 2048 THEN <<192 + (c \div 64), 128 + (c % 64)>>
    ELSE IF c < 65536
         THEN <<224 + (c \div 4096), 128 + ((c \div 64) % 64), 128 + (c % 64)>>
    ELSE <<240 + (c \div 262144), 128 + ((c \div 4096) % 64),
           128 + ((c \div 64) % 64), 128 + (c % 64)>>

RECURSIVE AsBytes(_)
AsBytes(s) == IF s = <<>> THEN <<>> ELSE Utf8Bytes(Head(s)) \o AsBytes(Tail(s))

\* convert_to_bytes: one identifier per byte, widened to u16 unchanged.
convert_to_bytes(s) == AsBytes(s)

\* get_stats: the fold over zip(ids, ids.skip(1)) that counts each pair.
RECURSIVE StatsFrom(_, _, _)
StatsFrom(s, k, map) ==
    IF k >= Len(s) THEN map
    ELSE LET p == <<s[k], s[k + 1]>>
             count == IF p \in DOMAIN map THEN map[p] ELSE 0
         IN StatsFrom(s, k + 1,
                [q \in DOMAIN map \cup {p} |-> IF q = p THEN count + 1 ELSE map[q]])

get_stats(s) == StatsFrom(s, 1, <<>>)

\* Variants of get_most_frequent_pair: the threshold off by one, and the
\* minimum taken for the maximum.
get_most_frequent_pair_threshold(s) ==
    LET map == get_stats(s)
    IN IF DOMAIN map = {} THEN {None}
       ELSE {IF map[p] < 1 THEN None ELSE p :
                p \in {q \in DOMAIN map : \A r \in DOMAIN map : map[r] <= map[q]}}

get_most_frequent_pair_min(s) ==
    LET map == get_stats(s)
    IN IF DOMAIN map = {} THEN {None}
       ELSE {IF map[p] < 2 THEN None ELSE p :
                p \in {q \in DOMAIN map : \A r \in DOMAIN map : map[r] >= map[q]}}

\* get_most_frequent_pair: max_by_key over the map's iterator returns an
\* entry of maximal count, which one depending on the iteration order; the
\* set of the results the call can give.
get_most_frequent_pair(s) ==
    LET map == get_stats(s)
    IN IF DOMAIN map = {} THEN {None}
       ELSE {IF map[p] < 2 THEN None ELSE p :
                p \in {q \in DOMAIN map : \A r \in DOMAIN map : map[r] <= map[q]}}

\* merge: the loop over zip(ids, ids.skip(1)) with its skip_next flag.
RECURSIVE MergeLoop(_, _, _, _, _, _)
MergeLoop(s, p, idx, k, skip_next, result) ==
    IF k >= Len(s) THEN [result |-> result, skip_next |-> skip_next]
    ELSE IF skip_next THEN MergeLoop(s, p, idx, k + 1, FALSE, result)
    ELSE IF <<s[k], s[k + 1]>> = p
         THEN MergeLoop(s, p, idx, k + 1, TRUE, Append(result, idx))
    ELSE MergeLoop(s, p, idx, k + 1, FALSE, Append(result, s[k]))

\* A variant of merge that never skips the element a match consumed.
RECURSIVE MergeLoopNoSkip(_, _, _, _, _)
MergeLoopNoSkip(s, p, idx, k, result) ==
    IF k >= Len(s) THEN result
    ELSE IF <<s[k], s[k + 1]>> = p
         THEN MergeLoopNoSkip(s, p, idx, k + 1, Append(result, idx))
    ELSE MergeLoopNoSkip(s, p, idx, k + 1, Append(result, s[k]))

merge_no_skip(s, p, idx) ==
    IF Len(s) < 2 THEN s
    ELSE Append(MergeLoopNoSkip(s, p, idx, 1, <<>>), s[Len(s)])

merge(s, p, idx) ==
    IF Len(s) < 2 THEN s
    ELSE LET r == MergeLoop(s, p, idx, 1, FALSE, <<>>)
         IN IF ~r.skip_next THEN Append(r.result, s[Len(s)]) ELSE r.result

\* LinkedHashMap<(u16, u16), u16>: a sequence of entries in insertion order.
Keys(m) == {m[k].pair : k \in 1..Len(m)}
contains_key(m, p) == p \in Keys(m)
get(m, p) == (CHOOSE k \in 1..Len(m) : m[k].pair = p)
Code(m, p) == m[get(m, p)].idx
\* A variant of insert that links the new entry at the front.
insert_front(m, p, idx) ==
    <<[pair |-> p, idx |-> idx]>> \o SelectSeq(m, LAMBDA e : e.pair # p)

\* insert: an existing key is re-linked at the back with the new value.
insert(m, p, idx) ==
    SelectSeq(m, LAMBDA e : e.pair # p) \o <<[pair |-> p, idx |-> idx]>>

\* The identifier of round n of calculate_merges: idx = 256 + i.
NewIdx(n) == BaseVocab + n

\* calculate_merges as a whole: the set of the tables the call can return,
\* one for each way the rounds' selections can fall.
RECURSIVE MergesFrom(_, _, _, _)
MergesFrom(s, m, n, num_merges) ==
    IF n >= num_merges THEN {m}
    ELSE UNION {IF p = None THEN {m}
                ELSE MergesFrom(merge(s, p, NewIdx(n)),
                                insert(m, p, NewIdx(n)), n + 1, num_merges) :
                p \in get_most_frequent_pair(s)}

calculate_merges(s, size, start) == MergesFrom(s, <<>>, 0, size - start)

\* generate_vocab: the base entries, then one entry per merge in
\* insertion order; expect() aborts on a missing constituent.
RECURSIVE VocabFrom(_, _, _)
VocabFrom(m, k, v) ==
    IF k > Len(m) THEN [panic |-> FALSE, vocab |-> v]
    ELSE LET p0 == m[k].pair[1]
             p1 == m[k].pair[2]
         IN IF p0 \notin DOMAIN v \/ p1 \notin DOMAIN v
            THEN [panic |-> TRUE, vocab |-> v]
            ELSE VocabFrom(m, k + 1,
                    [x \in DOMAIN v \cup {m[k].idx} |->
                        IF x = m[k].idx THEN v[p0] \o v[p1] ELSE v[x]])

\* A variant of generate_vocab that chains the two payloads in the wrong order.
RECURSIVE VocabFromSwapped(_, _, _)
VocabFromSwapped(m, k, v) ==
    IF k > Len(m) THEN [panic |-> FALSE, vocab |-> v]
    ELSE LET p0 == m[k].pair[1]
             p1 == m[k].pair[2]
         IN IF p0 \notin DOMAIN v \/ p1 \notin DOMAIN v
            THEN [panic |-> TRUE, vocab |-> v]
            ELSE VocabFromSwapped(m, k + 1,
                    [x \in DOMAIN v \cup {m[k].idx} |->
                        IF x = m[k].idx THEN v[p1] \o v[p0] ELSE v[x]])

generate_vocab_swapped(m) ==
    VocabFromSwapped(m, 1, [idx \in 0..(BaseVocab - 1) |-> <<idx % 256>>])

generate_vocab(m) == VocabFrom(m, 1, [idx \in 0..(BaseVocab - 1) |-> <<idx % 256>>])

\* String::from_utf8_lossy: well-formed sequences decode to their scalar
\* value, each maximal ill-formed part becomes U+FFFD.
Replacement == 65533
IsCont(bs, k) == k <= Len(bs) /\ bs[k] \in 128..191
SecondOk(bs, k) ==
    /\ k + 1 <= Len(bs)
    /\ LET b == bs[k]
           c == bs[k + 1]
       IN CASE b = 224 -> c \in 160..191
            [] b = 237 -> c \in 128..159
            [] b = 240 -> c \in 144..191
            [] b = 244 -> c \in 128..143
            [] OTHER -> c \in 128..191

RECURSIVE LossyFrom(_, _, _)
LossyFrom(bs, k, out) ==
    IF k > Len(bs) THEN out
    ELSE LET b == bs[k]
         IN CASE b < 128 -> LossyFrom(bs, k + 1, Append(out, b))
              [] b \in 194..223 ->
                    IF IsCont(bs, k + 1)
                    THEN LossyFrom(bs, k + 2,
                            Append(out, (b - 192) * 64 + (bs[k + 1] - 128)))
                    ELSE LossyFrom(bs, k + 1, Append(out, Replacement))
              [] b \in 224..239 ->
                    IF ~SecondOk(bs, k)
                    THEN LossyFrom(bs, k + 1, Append(out, Replacement))
                    ELSE IF ~IsCont(bs, k + 2)
                    THEN LossyFrom(bs, k + 2, Append(out, Replacement))
                    ELSE LossyFrom(bs, k + 3,
                            Append(out, (b - 224) * 4096 + (bs[k + 1] - 128) * 64
                                        + (bs[k + 2] - 128)))
              [] b \in 240..244 ->
                    IF ~SecondOk(bs, k)
                    THEN LossyFrom(bs, k + 1, Append(out, Replacement))
                    ELSE IF ~IsCont(bs, k + 2)
                    THEN LossyFrom(bs, k + 2, Append(out, Replacement))
                    ELSE IF ~IsCont(bs, k + 3)
                    THEN LossyFrom(bs, k + 3, Append(out, Replacement))
                    ELSE LossyFrom(bs, k + 4,
                            Append(out, (b - 240) * 262144 + (bs[k + 1] - 128) * 4096
                                        + (bs[k + 2] - 128) * 64 + (bs[k + 3] - 128)))
              [] OTHER -> LossyFrom(bs, k + 1, Append(out, Replacement))

from_utf8_lossy(bs) == LossyFrom(bs, 1, <<>>)

\* decode: the payloads of the identifiers, concatenated; expect() aborts
\* on an identifier the vocabulary lacks.
RECURSIVE Payload(_, _)
Payload(s, v) == IF s = <<>> THEN <<>> ELSE v[Head(s)] \o Payload(Tail(s), v)

decode(s, v) ==
    IF \E k \in 1..Len(s) : s[k] \notin DOMAIN v
    THEN [panic |-> TRUE, res |-> <<>>]
    ELSE [panic |-> FALSE, res |-> from_utf8_lossy(Payload(s, v))]

\* get_pair_with_lowest_value: the pair of the statistics with the lowest
\* code below u16::MAX, (0, 0) when no pair of the statistics is a key; the
\* set of the results the call can give.
get_pair_with_lowest_value(stats, m) ==
    LET cand == {p \in DOMAIN stats : contains_key(m, p) /\ Code(m, p) < U16Max}
    IN IF cand = {} THEN {<<0, 0>>}
       ELSE {p \in cand : \A q \in cand : Code(m, p) <= Code(m, q)}

----------------------------------------------------------------------------
Init ==
    /\ pc = "idle"
    /\ ids_orig = <<>>
    /\ vocab_size = BaseVocab
    /\ vocab_start = BaseVocab
    /\ i = 0
    /\ ids = <<>>
    /\ pair = None
    /\ merges = <<>>
    /\ input = <<>>
    /\ tokens = <<>>
    /\ vocab = <<>>
    /\ res = <<>>
    /\ call = <<>>

\* A direct call of the public function merge.
MergeCall ==
    /\ pc = "idle"
    /\ \E s \in MergeSeqs, p \in MergeAlphabet \X MergeAlphabet :
          call' = [ids |-> s, pair |-> p, idx |-> BaseVocab,
                   result |-> merge(s, p, BaseVocab)]
    /\ pc' = "merged"
    /\ UNCHANGED <<ids_orig, vocab_size, vocab_start, i, ids, pair, merges,
                   input, tokens, vocab, res>>

\* calculate_merges(convert_to_bytes(corpus), vocab_size, vocab_start), up
\* to the head of its loop.
TrainStart ==
    /\ pc = "idle"
    /\ \E corpus \in Corpora, start \in VocabStarts, n \in 0..MaxMerges :
          /\ ids_orig' = convert_to_bytes(corpus)
          /\ vocab_start' = start
          /\ vocab_size' = start + n
    /\ ids' = ids_orig'
    /\ i' = 0
    /\ merges' = <<>>
    /\ pc' = "train_loop"
    /\ UNCHANGED <<pair, input, tokens, vocab, res, call>>

\* calculate_merges_default on the corpus of test calculate_merges_simple.
TrainExample ==
    /\ pc = "idle"
    /\ ids_orig' = convert_to_bytes(ExampleCorpus)
    /\ vocab_start' = BaseVocab
    /\ vocab_size' = ExampleVocabSize
    /\ ids' = ids_orig'
    /\ i' = 0
    /\ merges' = <<>>
    /\ pc' = "train_loop"
    /\ UNCHANGED <<pair, input, tokens, vocab, res, call>>

\* The head of the for loop and get_most_frequent_pair.
TrainSelect ==
    /\ pc = "train_loop"
    /\ IF i < vocab_size - vocab_start
       THEN /\ pair' \in get_most_frequent_pair(ids)
            /\ pc' = "train_check"
       ELSE /\ pair' = pair
            /\ pc' = "trained"
    /\ UNCHANGED <<ids_orig, vocab_size, vocab_start, i, ids, merges,
                   input, tokens, vocab, res, call>>

\* The rest of the loop body: break on None, else merge and insert.
TrainApply ==
    /\ pc = "train_check"
    /\ IF pair = None
       THEN /\ pc' = "trained"
            /\ UNCHANGED <<i, ids, merges>>
       ELSE /\ ids' = merge(ids, pair, NewIdx(i))
            /\ merges' = insert(merges, pair, NewIdx(i))
            /\ i' = i + 1
            /\ pc' = "train_loop"
    /\ UNCHANGED <<ids_orig, vocab_size, vocab_start, pair, input, tokens,
                   vocab, res, call>>

\* encode(text, merges), up to the head of its loop.
EncodeStart ==
    /\ pc = "trained"
    /\ \E text \in Texts : input' = text
    /\ tokens' = convert_to_bytes(input')
    /\ pc' = "enc_loop"
    /\ UNCHANGED <<ids_orig, vocab_size, vocab_start, i, ids, pair, merges,
                   vocab, res, call>>

\* The head of the while loop, get_stats and get_pair_with_lowest_value.
EncodeSelect ==
    /\ pc = "enc_loop"
    /\ IF Len(tokens) > 1
       THEN /\ pair' \in get_pair_with_lowest_value(get_stats(tokens), merges)
            /\ pc' = "enc_check"
       ELSE /\ pair' = pair
            /\ pc' = "encoded"
    /\ UNCHANGED <<ids_orig, vocab_size, vocab_start, i, ids, merges,
                   input, tokens, vocab, res, call>>

\* The rest of the loop body: break unless the pair is a key, else merge.
EncodeApply ==
    /\ pc = "enc_check"
    /\ IF ~contains_key(merges, pair)
       THEN /\ pc' = "encoded"
            /\ tokens' = tokens
       ELSE /\ tokens' = merge(tokens, pair, Code(merges, pair))
            /\ pc' = "enc_loop"
    /\ UNCHANGED <<ids_orig, vocab_size, vocab_start, i, ids, pair, merges,
                   input, vocab, res, call>>

\* generate_vocab(merges) after encode, as in test encode_decode_simple.
GenerateVocab ==
    /\ pc = "encoded"
    /\ LET r == generate_vocab(merges)
       IN /\ vocab' = r.vocab
          /\ pc' = IF r.panic THEN "panic" ELSE "vocab_ready"
    /\ UNCHANGED <<ids_orig, vocab_size, vocab_start, i, ids, pair, merges,
                   input, tokens, res, call>>

\* decode(encoded, vocab).
Decode ==
    /\ pc = "vocab_ready"
    /\ LET r == decode(tokens, vocab)
       IN /\ res' = r.res
          /\ pc' = IF r.panic THEN "panic" ELSE "decoded"
    /\ UNCHANGED <<ids_orig, vocab_size, vocab_start, i, ids, pair, merges,
                   input, tokens, vocab, call>>

Next ==
    \/ MergeCall
    \/ TrainStart
    \/ TrainExample
    \/ TrainSelect
    \/ TrainApply
    \/ EncodeStart
    \/ EncodeSelect
    \/ EncodeApply
    \/ GenerateVocab
    \/ Decode

Spec == Init /\ [][Next]_vars

\* The program runs to completion: no step that can be taken is put off
\* for ever.
FairSpec == Spec /\ WF_vars(Next)

----------------------------------------------------------------------------
\* What the properties below speak of, stated without the program's data
\* structures: the positions of a pair in a sequence.
AdjacentPairs(s) == {<<s[k], s[k + 1]>> : k \in 1..(Len(s) - 1)}
Occurrences(s, p) == Cardinality({k \in 1..(Len(s) - 1) : <<s[k], s[k + 1]>> = p})
HasRepeatedPair(s) == \E p \in AdjacentPairs(s) : Occurrences(s, p) >= 2
Elements(s) == {s[k] : k \in 1..Len(s)}
Ids(m) == {m[k].idx : k \in 1..Len(m)}

\* The corpus holds every byte and every pair of bytes of the text.
CorpusCovers(text) ==
    LET b == convert_to_bytes(text)
    IN /\ Elements(b) \subseteq Elements(ids_orig)
       /\ AdjacentPairs(b) \subseteq AdjacentPairs(ids_orig)

\* C1: for every text whose bytes and byte pairs all occur in the training
\* corpus, encoding the text with the trained table and decoding the result
\* with the table's vocabulary returns the text.
RoundTripReturnsText ==
    (pc = "enc_loop" /\ CorpusCovers(input)) ~> (pc = "decoded" /\ res = input)

\* The part of C1 that holds: a round trip that returns, returns the text,
\* and the payloads of the tokens are the bytes of the text all along.
RoundTripWhenReturned ==
    /\ pc = "decoded" => res = input
    /\ pc \in {"vocab_ready", "decoded"} =>
          Payload(tokens, vocab) = convert_to_bytes(input)

\* The scan C2 describes: at position k a match emits the replacement and
\* advances by two, anything else emits the element and advances by one.
RECURSIVE ScanFrom(_, _, _, _)
ScanFrom(s, p, idx, k) ==
    IF k > Len(s) THEN <<>>
    ELSE IF k < Len(s) /\ s[k] = p[1] /\ s[k + 1] = p[2]
         THEN <<idx>> \o ScanFrom(s, p, idx, k + 2)
    ELSE <<s[k]>> \o ScanFrom(s, p, idx, k + 1)

\* C2: merge returns the result of one left-to-right scan that replaces a
\* match by the identifier and steps over both of its elements; sequences
\* shorter than two are returned unchanged; (e,e) on [e,e,e] gives [id,e]
\* and (101,32) on [101,32,101,32,101,32,101] gives [256,256,256,101].
MergeIsLeftToRightScan ==
    /\ pc = "merged" =>
          /\ call.result = ScanFrom(call.ids, call.pair, call.idx, 1)
          /\ Len(call.ids) < 2 => call.result = call.ids
          /\ (call.ids = ContinuousIds /\ call.pair = <<101, 32>>) =>
                call.result = <<256, 256, 256, 101>>
          /\ (call.ids = <<101, 101, 101>> /\ call.pair = <<101, 101>>) =>
                call.result = <<256, 101>>
    /\ (pc = "train_check" /\ pair # None) =>
          merge(ids, pair, NewIdx(i)) = ScanFrom(ids, pair, NewIdx(i), 1)
    /\ (pc = "enc_check" /\ contains_key(merges, pair)) =>
          merge(tokens, pair, Code(merges, pair))
             = ScanFrom(tokens, pair, Code(merges, pair), 1)

MergeContinuousReached ==
    /\ pc = "merged"
    /\ call.ids = ContinuousIds
    /\ call.pair = <<101, 32>>
    /\ call.result = <<256, 256, 256, 101>>

\* C3: the merge an iteration of encode applies is the rule of lowest
\* identifier among the rules whose pair is adjacent in the current
\* sequence, and the selection does not depend on the order in which the
\* statistics are iterated.
EncodeAppliesLowestPresentRule ==
    /\ (pc = "enc_check" /\ contains_key(merges, pair)) =>
          /\ pair \in AdjacentPairs(tokens)
          /\ \A q \in AdjacentPairs(tokens) \cap Keys(merges) :
                Code(merges, pair) <= Code(merges, q)
    /\ (pc = "enc_loop" /\ Len(tokens) > 1) =>
          Cardinality(get_pair_with_lowest_value(get_stats(tokens), merges)) = 1

\* C4: training with the default start makes at most vocab_size - 256
\* rounds, one entry per completed round; a round completes only when a
\* pair occurs twice and training stops short of its budget only when none
\* does; "aaabdaaabac" with vocab_size 276 gives three entries.
TrainingStopsAtExhaustion ==
    vocab_start = BaseVocab =>
       /\ pc \in {"train_loop", "train_check", "trained"} =>
             /\ Len(merges) = i
             /\ i <= vocab_size - BaseVocab
       /\ pc = "train_check" => (pair = None <=> ~HasRepeatedPair(ids))
       /\ (pc = "trained" /\ i < vocab_size - BaseVocab) => ~HasRepeatedPair(ids)
       /\ (pc = "trained" /\ HasRepeatedPair(ids)) => i = vocab_size - BaseVocab
       /\ (pc = "trained" /\ ids_orig = ExampleCorpus
             /\ vocab_size = ExampleVocabSize) => Len(merges) = 3

ExampleTrained ==
    /\ pc = "trained"
    /\ ids_orig = ExampleCorpus
    /\ vocab_size = ExampleVocabSize
    /\ Len(merges) = 3
    /\ i < vocab_size - BaseVocab

\* C5: get_most_frequent_pair returns None exactly when no adjacent pair
\* occurs at least twice, and otherwise a pair whose number of occurrences
\* is the maximum over the adjacent pairs of the sequence.
MostFrequentPairContract ==
    pc = "train_check" =>
       /\ pair = None <=> \A q \in AdjacentPairs(ids) : Occurrences(ids, q) < 2
       /\ Len(ids) < 2 => pair = None
       /\ pair # None =>
             /\ pair \in AdjacentPairs(ids)
             /\ \A q \in AdjacentPairs(ids) :
                   Occurrences(ids, q) <= Occurrences(ids, pair)

MostFrequentPairChosen ==
    /\ pc = "train_check"
    /\ pair # None
    /\ Occurrences(ids, pair) >= 2
    /\ \E q \in AdjacentPairs(ids) : Occurrences(ids, q) < Occurrences(ids, pair)

\* C6: the vocabulary maps each identifier 0..255 to the byte of its value
\* and the identifier of each entry (p0, p1) of the table to the payload of
\* p0 followed by the payload of p1, and holds nothing else; for the empty
\* table it is the base mapping.
VocabContract ==
    pc \in {"vocab_ready", "decoded"} =>
       /\ DOMAIN vocab = 0..255 \cup Ids(merges)
       /\ \A b \in 0..255 : vocab[b] = <<b>>
       /\ \A k \in 1..Len(merges) :
             vocab[merges[k].idx]
                = vocab[merges[k].pair[1]] \o vocab[merges[k].pair[2]]
       /\ merges = <<>> => vocab = [b \in 0..255 |-> <<b>>]

NestedVocabBuilt ==
    /\ pc = "vocab_ready"
    /\ \E k \in 1..Len(merges) :
          /\ merges[k].pair[1] >= BaseVocab
          /\ merges[k].pair[1] # merges[k].pair[2]
          /\ Len(vocab[merges[k].idx]) = 3

\* C7: the entry of round i carries the identifier vocab_start + i, no
\* round selects a pair that is a key already, so the identifiers are
\* vocab_start, vocab_start + 1, ... in insertion order, all below
\* vocab_size.
IdentifiersDenseFromStart ==
    /\ \A k \in 1..Len(merges) :
          /\ merges[k].idx = vocab_start + (k - 1)
          /\ merges[k].idx < vocab_size
    /\ (pc = "train_check" /\ pair # None) => ~contains_key(merges, pair)

\* C8: two runs of calculate_merges on the same sequence and vocab_size
\* return the same table: the table a run returns is the only one the call
\* can return.
TrainingDeterministic ==
    pc = "trained" => calculate_merges(ids_orig, vocab_size, vocab_start) = {merges}

\* C9: encode terminates: an iteration stops the loop when no adjacent pair
\* is a key of the table, and an iteration that does not stop leaves the
\* sequence strictly shorter.
EncodeIterationShortens ==
    [][pc = "enc_check" =>
          IF AdjacentPairs(tokens) \cap Keys(merges) = {}
          THEN pc' = "encoded"
          ELSE Len(tokens') < Len(tokens)]_vars

\* C10: in a table trained with the default start both elements of every
\* entry are bytes or identifiers of earlier entries, below the entry's
\* own; generate_vocab does not abort on it, nor does decode on what encode
\* returns with it.
TrainedTableWellFounded ==
    vocab_start = BaseVocab =>
       /\ \A k \in 1..Len(merges) : \A x \in 1..2 :
             /\ \/ merges[k].pair[x] < BaseVocab
                \/ \E j \in 1..(k - 1) : merges[j].idx = merges[k].pair[x]
             /\ merges[k].pair[x] < merges[k].idx
       /\ pc # "panic"
       /\ Elements(tokens) \subseteq 0..255 \cup Ids(merges)

MergedTokensDecoded ==
    /\ pc = "decoded"
    /\ vocab_start = BaseVocab
    /\ \E k \in 1..Len(tokens) : tokens[k] > BaseVocab
    /\ \E k \in 1..Len(merges) : merges[k].pair[1] >= BaseVocab

====
